---- MODULE Spec2Model ----
(***************************************************************************)
(* pico_fota_bootloader: the boot dispatcher (bootloader.c) and the        *)
(* application-side FOTA API (src/pico_fota_bootloader.c) over a NOR flash *)
(* holding the INFO sector, the APP slot and the DOWNLOAD slot.            *)
(*                                                                         *)
(* Flash is modelled at the granularity of the flash primitives the code   *)
(* calls: one step per flash_range_erase / flash_range_program call, so    *)
(* that power can be lost between any two of them.  An erased cell reads   *)
(* all-ones; programming a cell ANDs the new bits into it.                 *)
(***************************************************************************)
EXTENDS Integers, Sequences, FiniteSets, TLC

(* ------------------------------------------------------------------ *)
(* Bounds of the model                                                  *)
(* ------------------------------------------------------------------ *)
SectorsPerImage == 2
PagesPerSector == 2
\* API calls, resets and power losses in one run
MaxEvents == 4

(* ------------------------------------------------------------------ *)
(* Program constants                                                    *)
(* ------------------------------------------------------------------ *)
\* A uint32_t / size_t is the pair <<high half, low half>> of its 16-bit halves.
Half == 256 * 256
PFB_SHOULD_SWAP_MAGIC == <<43981, 61202>>          \* 0xabcdef12
PFB_SHOULD_NOT_SWAP_MAGIC == <<0, 0>>
PFB_HAS_NEW_FIRMWARE_MAGIC == <<4660, 22136>>      \* 0x12345678
PFB_NO_NEW_FIRMWARE_MAGIC == <<0, 0>>
PFB_IS_AFTER_ROLLBACK_MAGIC == <<48879, 48879>>    \* 0xbeefbeef
PFB_IS_NOT_AFTER_ROLLBACK_MAGIC == <<0, 0>>
PFB_SHOULD_ROLLBACK_MAGIC == <<3562, 57005>>       \* 0x0deadead
PFB_SHOULD_NOT_ROLLBACK_MAGIC == <<0, 0>>
PFB_SHA256_DIGEST_SIZE == 32
PFB_ALIGN_SIZE == 256

\* what an erased flash cell reads: 0xffffffff
ERASED == <<Half - 1, Half - 1>>

\* a small number as a uint32_t
U32(n) == <<n \div Half, n % Half>>
\* a + b in uint32_t arithmetic
Add32(a, b) == <<(a[1] + b[1] + (a[2] + b[2]) \div Half) % Half, (a[2] + b[2]) % Half>>
\* a > b
Gt32(a, b) == a[1] > b[1] \/ (a[1] = b[1] /\ a[2] > b[2])
\* a % m for an m that divides 65536
Mod32(a, m) == a[2] % m

FLASH_SECTOR_SIZE == PagesPerSector * PFB_ALIGN_SIZE
\* __FLASH_SWAP_SPACE_LENGTH: the length of APP and of DOWNLOAD
SWAP_LEN == SectorsPerImage * FLASH_SECTOR_SIZE
SWAP_ITERATIONS == SWAP_LEN \div FLASH_SECTOR_SIZE
NumPages == SWAP_LEN \div PFB_ALIGN_SIZE

\* the 4-byte cells of the INFO sector: the four markers and the rest
DV == "IS_DOWNLOAD_SLOT_VALID"
FS == "IS_FIRMWARE_SWAPPED"
SR == "SHOULD_ROLLBACK"
IAR == "IS_AFTER_ROLLBACK"
REST == "REST"
InfoCells == {DV, FS, SR, IAR, REST}

(* ------------------------------------------------------------------ *)
(* Flash primitives                                                     *)
(* ------------------------------------------------------------------ *)
RECURSIVE BitAnd(_, _)
BitAnd(a, b) ==
    IF a = 0 \/ b = 0 THEN 0
    ELSE (a % 2) * (b % 2) + 2 * BitAnd(a \div 2, b \div 2)

\* flash_range_program on one cell: bits can only be cleared
Program(old, new) ==
    IF old = ERASED THEN new ELSE <<BitAnd(old[1], new[1]), BitAnd(old[2], new[2])>>

\* a sector is a sequence of PagesPerSector pages, a slot a sequence of sectors
ErasedSector == [p \in 1..PagesPerSector |-> ERASED]
ErasedSlot == [s \in 1..SectorsPerImage |-> ErasedSector]
ErasedInfo == [c \in InfoCells |-> ERASED]

ProgramSector(old, new) == [p \in 1..PagesPerSector |-> Program(old[p], new[p])]
ProgramInfo(old, new) == [c \in InfoCells |-> Program(old[c], new[c])]

\* the image the device is flashed with, and an image an update server sends
FactoryImage == [s \in 1..SectorsPerImage |-> [p \in 1..PagesPerSector |-> U32(s)]]
StagedImage == [s \in 1..SectorsPerImage |-> [p \in 1..PagesPerSector |-> U32(5)]]
\* the page contents the application streams into DOWNLOAD
PageData == {U32(5)}

(* ------------------------------------------------------------------ *)
(* State                                                                *)
(* ------------------------------------------------------------------ *)
VARIABLES
    info,        \* INFO sector: cell -> 32-bit word
    app,         \* APP slot: sector -> page -> content
    download,    \* DOWNLOAD slot: sector -> page -> content
    pc,          \* control point of the running program
    branch,      \* branch main() took in the current boot
    i,           \* loop counter of swap_images / of the write loop
    swap_buff_from_downlaod_slot,     \* RAM copy of a DOWNLOAD sector, <<>> when unset
    swap_buff_from_application_slot,  \* RAM copy of an APP sector, <<>> when unset
    data_arr,    \* RAM copy of the INFO sector inside the codec, <<>> outside
    wr,          \* arguments and progress of the write call in flight or last made
    ret,         \* return value of the last API call that returns one
    events,      \* API calls, resets and power losses so far
    ses,         \* what the application did since the last jump
    prev,        \* the session that ended with the last reset out of the application
    attempt,     \* boots since the last reset out of the application (0: none yet)
    swapped,     \* swap_images ran to its end in the current boot
    dlAtValid,   \* DOWNLOAD as it was when DOWNLOAD_VALID was last set to SWAP
    cutAt,       \* where the last power loss hit
    jumpsSince,  \* boots completed since the last power loss (3: three or more)
    boot0,       \* INFO, APP and DOWNLOAD as main() found them in the current boot
    lastBoot,    \* the last boot that reached the jump: its branch, what it found and left
    before,      \* INFO, APP and DOWNLOAD as the marker write in progress found them
    interrupts,        \* TRUE while interrupts are enabled (PRIMASK clear)
    saved_interrupts,  \* the local of that name in the section that is open, if any
    mask0,       \* the value of interrupts the reset or the application last set
    unmasked,    \* some flash erase or program ran while interrupts were enabled
    isr,         \* whether an interrupt handler ran, and whether inside an operation
    dlChunks,    \* the DOWNLOAD slot in 32-byte units, as the digest check reads it
    sha          \* the last pfb_firmware_sha256_check: its argument and return value

flash == <<info, app, download>>
ram == <<i, swap_buff_from_downlaod_slot, swap_buff_from_application_slot, data_arr>>
shaVars == <<dlChunks, sha>>
vars == <<info, app, download, pc, branch, i, swap_buff_from_downlaod_slot,
          swap_buff_from_application_slot, data_arr, wr, ret, events,
          ses, prev, attempt, swapped, dlAtValid, cutAt, jumpsSince,
          boot0, lastBoot, before, interrupts, saved_interrupts, mask0,
          unmasked, isr, dlChunks, sha>>

(* ------------------------------------------------------------------ *)
(* Marker reads                                                         *)
(* ------------------------------------------------------------------ *)
\* mutant: every value but the NO magic counts as a request to roll back
Mutant_rollback_unless_no == info[SR] # PFB_SHOULD_NOT_ROLLBACK_MAGIC
_pfb_should_rollback == info[SR] = PFB_SHOULD_ROLLBACK_MAGIC
\* mutant: every value but the NOSWAP magic counts as a firmware to swap
Mutant_swap_unless_noswap == info[DV] # PFB_SHOULD_NOT_SWAP_MAGIC
_pfb_has_firmware_to_swap == info[DV] = PFB_SHOULD_SWAP_MAGIC
pfb_is_after_firmware_update == info[FS] = PFB_HAS_NEW_FIRMWARE_MAGIC
pfb_is_after_rollback == info[IAR] = PFB_IS_AFTER_ROLLBACK_MAGIC

(* ------------------------------------------------------------------ *)
(* Marker writes: the cell and the magic each function hands the codec  *)
(* ------------------------------------------------------------------ *)
mark_download_slot(magic) == <<DV, magic>>
notify_pico_about_firmware(magic) == <<FS, magic>>
mark_if_should_rollback(magic) == <<SR, magic>>
mark_if_is_after_rollback(magic) == <<IAR, magic>>

pfb_mark_download_slot_as_valid == mark_download_slot(PFB_SHOULD_SWAP_MAGIC)
\* mutant: the slot is marked with the wrong magic
Mutant_mark_invalid_writes_swap == mark_download_slot(PFB_SHOULD_SWAP_MAGIC)
pfb_mark_download_slot_as_invalid == mark_download_slot(PFB_SHOULD_NOT_SWAP_MAGIC)
\* mutant: the commit writes the magic of "should rollback"
Mutant_commit_writes_rollback == mark_if_should_rollback(PFB_SHOULD_ROLLBACK_MAGIC)
pfb_firmware_commit == mark_if_should_rollback(PFB_SHOULD_NOT_ROLLBACK_MAGIC)
_pfb_mark_should_rollback == mark_if_should_rollback(PFB_SHOULD_ROLLBACK_MAGIC)
\* mutant: the rollback is not recorded
Mutant_rollback_not_marked == mark_if_is_after_rollback(PFB_IS_NOT_AFTER_ROLLBACK_MAGIC)
_pfb_mark_is_after_rollback == mark_if_is_after_rollback(PFB_IS_AFTER_ROLLBACK_MAGIC)
\* mutant: "not after rollback" is written with the magic of "after rollback"
Mutant_not_after_writes_after == mark_if_is_after_rollback(PFB_IS_AFTER_ROLLBACK_MAGIC)
_pfb_mark_is_not_after_rollback == mark_if_is_after_rollback(PFB_IS_NOT_AFTER_ROLLBACK_MAGIC)
_pfb_mark_pico_has_new_firmware == notify_pico_about_firmware(PFB_HAS_NEW_FIRMWARE_MAGIC)
\* mutant: "no new firmware" is written with the magic of "new firmware"
Mutant_no_new_writes_new == notify_pico_about_firmware(PFB_HAS_NEW_FIRMWARE_MAGIC)
_pfb_mark_pico_has_no_new_firmware == notify_pico_about_firmware(PFB_NO_NEW_FIRMWARE_MAGIC)

(* ------------------------------------------------------------------ *)
(* Control points                                                       *)
(* ------------------------------------------------------------------ *)
SwapPcs == {"sw_copy", "sw_erase_app", "sw_erase_dl", "sw_prog_app", "sw_prog_dl"}
BootMarkPcs == {"rb_commit", "rb_fs", "rb_iar", "ac_fs", "ac_iar", "ac_sr",
                "pl_commit", "pl_fs", "inval"}
ApiMarkPcs == {"api_commit", "api_valid", "api_invalid", "init_commit"}
MarkPcs == BootMarkPcs \cup ApiMarkPcs
BootPcs == {"main", "jump"} \cup SwapPcs \cup BootMarkPcs
AppPcs == {"app", "init_erase", "write"} \cup ApiMarkPcs

\* the marker write the statement at control point p makes
Statement(p) ==
    CASE p = "rb_commit" -> pfb_firmware_commit
      [] p = "rb_fs" -> _pfb_mark_pico_has_no_new_firmware
      [] p = "rb_iar" -> _pfb_mark_is_after_rollback
      [] p = "ac_fs" -> _pfb_mark_pico_has_new_firmware
      [] p = "ac_iar" -> _pfb_mark_is_not_after_rollback
      [] p = "ac_sr" -> _pfb_mark_should_rollback
      [] p = "pl_commit" -> pfb_firmware_commit
      [] p = "pl_fs" -> _pfb_mark_pico_has_no_new_firmware
      [] p = "inval" -> pfb_mark_download_slot_as_invalid
      [] p = "api_commit" -> pfb_firmware_commit
      [] p = "api_valid" -> pfb_mark_download_slot_as_valid
      [] p = "api_invalid" -> pfb_mark_download_slot_as_invalid
      [] p = "init_commit" -> pfb_firmware_commit

\* mutant: the rollback branch jumps without marking the download slot invalid
Mutant_After_rollback_skips_invalid(p) ==
    CASE p = "rb_commit" -> "rb_fs"
      [] p = "rb_fs" -> "rb_iar"
      [] p = "rb_iar" -> "jump"
      [] p = "ac_fs" -> "ac_iar"
      [] p = "ac_iar" -> "ac_sr"
      [] p = "ac_sr" -> "inval"
      [] p = "pl_commit" -> "pl_fs"
      [] p = "pl_fs" -> "inval"
      [] p = "inval" -> "jump"
      [] p = "init_commit" -> "init_erase"
      [] p \in {"api_commit", "api_valid", "api_invalid"} -> "app"

\* the control point after the statement at p
After(p) ==
    CASE p = "rb_commit" -> "rb_fs"
      [] p = "rb_fs" -> "rb_iar"
      [] p = "rb_iar" -> "inval"
      [] p = "ac_fs" -> "ac_iar"
      [] p = "ac_iar" -> "ac_sr"
      [] p = "ac_sr" -> "inval"
      [] p = "pl_commit" -> "pl_fs"
      [] p = "pl_fs" -> "inval"
      [] p = "inval" -> "jump"
      [] p = "init_commit" -> "init_erase"
      [] p \in {"api_commit", "api_valid", "api_invalid"} -> "app"

\* where main() continues when swap_images returns
AfterSwap(b) == IF b = "rollback" THEN "rb_commit" ELSE "ac_fs"

(* ------------------------------------------------------------------ *)
(* History kept for the properties                                      *)
(* ------------------------------------------------------------------ *)
NoSession == [commit |-> FALSE, init |-> FALSE, touched |-> FALSE, stray |-> FALSE,
              wrote |-> FALSE, wroteFirst |-> FALSE, last |-> "other"]
NoPrev == [branch |-> "none", commit |-> FALSE, init |-> FALSE, touched |-> FALSE,
           stray |-> FALSE, wrote |-> FALSE, last |-> "other", how |-> "none",
           broken |-> FALSE, sr |-> FALSE]
NoCut == [n |-> 0, pc |-> "none", branch |-> "none", erased |-> FALSE]
NoWrite == [called |-> FALSE, offset |-> U32(0), len |-> U32(0), src |-> U32(0),
            dirty |-> FALSE, outside |-> {}, info0 |-> <<>>, app0 |-> <<>>]
NoBoot0 == <<>>
NoLastBoot == [branch |-> "none", app0 |-> <<>>, dl0 |-> <<>>, app |-> <<>>]
hist == <<ses, prev, attempt, swapped, dlAtValid, cutAt, jumpsSince>>
NoBefore == <<>>
obs == <<boot0, lastBoot, before>>
counters == <<events>>

(* ------------------------------------------------------------------ *)
(* Interrupt mask: save_and_disable_interrupts / restore_interrupts     *)
(* ------------------------------------------------------------------ *)
irq == <<interrupts, saved_interrupts, mask0, unmasked, isr>>
NoSaved == <<>>

\* mutant: the mask is saved but interrupts stay as they were
Mutant_save_without_disable(enabled) == [saved |-> <<enabled>>, enabled |-> enabled]
\* the status it returns and the state of interrupts it leaves
save_and_disable_interrupts(enabled) == [saved |-> <<enabled>>, enabled |-> FALSE]
\* the state of interrupts after restore_interrupts(status)
restore_interrupts(status) == status[1]

\* a flash operation has started and its section has not ended: the codec
\* between its erase and its program, swap_images after its first statement
InOperation ==
    \/ data_arr # <<>>
    \/ pc \in SwapPcs /\ ~(pc = "sw_copy" /\ i = 0)

\* save_and_disable_interrupts at the head of a section that stays open
OpenSection ==
    LET s == save_and_disable_interrupts(interrupts) IN
    /\ saved_interrupts' = s.saved
    /\ interrupts' = s.enabled
    /\ UNCHANGED <<mask0, unmasked, isr>>

\* save_and_disable_interrupts and the first flash operation of the section
OpenSectionWithFlashOp ==
    LET s == save_and_disable_interrupts(interrupts) IN
    /\ saved_interrupts' = s.saved
    /\ interrupts' = s.enabled
    /\ unmasked' = (unmasked \/ s.enabled)
    /\ UNCHANGED <<mask0, isr>>

\* a flash operation inside the open section
FlashOpInSection ==
    /\ unmasked' = (unmasked \/ interrupts)
    /\ UNCHANGED <<interrupts, saved_interrupts, mask0, isr>>

\* the last flash operation of the section and restore_interrupts
FlashOpClosesSection ==
    /\ unmasked' = (unmasked \/ interrupts)
    /\ interrupts' = restore_interrupts(saved_interrupts)
    /\ saved_interrupts' = NoSaved
    /\ UNCHANGED <<mask0, isr>>

\* save_and_disable_interrupts, one flash operation, restore_interrupts
FlashOpInOwnSection ==
    LET s == save_and_disable_interrupts(interrupts) IN
    /\ unmasked' = (unmasked \/ s.enabled)
    /\ interrupts' = restore_interrupts(s.saved)
    /\ UNCHANGED <<saved_interrupts, mask0, isr>>

\* a reset: interrupts are enabled when main() starts
ResetInterrupts ==
    /\ interrupts' = TRUE
    /\ saved_interrupts' = NoSaved
    /\ mask0' = TRUE
    /\ UNCHANGED <<unmasked, isr>>

(* ------------------------------------------------------------------ *)
(* Info-sector codec: overwrite_4_bytes_in_flash                        *)
(* ------------------------------------------------------------------ *)
\* memcpy of the sector into RAM, the 4-byte overwrite, then the erase
\* mutant: the sector is not copied into RAM before the 4 bytes are set
Mutant_CodecErase_no_memcpy ==
    /\ pc \in MarkPcs
    /\ data_arr = <<>>
    /\ data_arr' = [c \in InfoCells |->
                        IF c = Statement(pc)[1] THEN Statement(pc)[2] ELSE U32(0)]
    /\ info' = ErasedInfo
    /\ before' = [info |-> info, app |-> app, download |-> download]
    /\ OpenSectionWithFlashOp
    /\ UNCHANGED <<app, download, pc, branch, i, swap_buff_from_downlaod_slot,
                   swap_buff_from_application_slot, wr, ret, counters, hist, shaVars,
                   boot0, lastBoot>>

CodecErase ==
    /\ pc \in MarkPcs
    /\ data_arr = <<>>
    /\ data_arr' = [info EXCEPT ![Statement(pc)[1]] = Statement(pc)[2]]
    /\ info' = ErasedInfo
    /\ before' = [info |-> info, app |-> app, download |-> download]
    /\ OpenSectionWithFlashOp
    /\ UNCHANGED <<app, download, pc, branch, i, swap_buff_from_downlaod_slot,
                   swap_buff_from_application_slot, wr, ret, counters, hist, shaVars,
                   boot0, lastBoot>>

\* flash_range_program of the whole sector from RAM; the call returns
CodecProgram ==
    /\ pc \in MarkPcs
    /\ data_arr # <<>>
    /\ info' = ProgramInfo(info, data_arr)
    /\ data_arr' = <<>>
    /\ pc' = After(pc)
    /\ dlAtValid' = IF pc = "api_valid" THEN download ELSE dlAtValid
    /\ ses' = IF pc = "api_valid" THEN [ses EXCEPT !.touched = FALSE] ELSE ses
    /\ before' = IF pc = "init_commit" THEN before ELSE NoBefore
    /\ FlashOpClosesSection
    /\ UNCHANGED <<app, download, branch, i, swap_buff_from_downlaod_slot,
                   swap_buff_from_application_slot, wr, ret, counters,
                   prev, attempt, swapped, cutAt, jumpsSince, shaVars, boot0, lastBoot>>

(* ------------------------------------------------------------------ *)
(* Boot dispatcher: main() and swap_images() of bootloader.c            *)
(* ------------------------------------------------------------------ *)
\* the if / else if / else of main()
MainBranch ==
    /\ pc = "main"
    /\ branch' = IF _pfb_should_rollback THEN "rollback"
                 ELSE IF _pfb_has_firmware_to_swap THEN "activate"
                 ELSE "plain"
    /\ pc' = IF branch' = "plain" THEN "pl_commit"
             ELSE IF 0 < SWAP_ITERATIONS THEN "sw_copy"
             ELSE AfterSwap(branch')
    /\ i' = 0
    /\ boot0' = [info |-> info, app |-> app, download |-> download]
    /\ UNCHANGED <<flash, swap_buff_from_downlaod_slot, swap_buff_from_application_slot,
                   data_arr, wr, ret, counters, hist, lastBoot, before, shaVars, irq>>

\* the two memcpy calls of iteration i
SwapCopy ==
    /\ pc = "sw_copy"
    /\ swap_buff_from_downlaod_slot' = download[i + 1]
    /\ swap_buff_from_application_slot' = app[i + 1]
    /\ pc' = "sw_erase_app"
    /\ IF i = 0 THEN OpenSection ELSE UNCHANGED irq
    /\ UNCHANGED <<flash, branch, i, data_arr, wr, ret, counters, hist, shaVars, obs>>

SwapEraseApp ==
    /\ pc = "sw_erase_app"
    /\ app' = [app EXCEPT ![i + 1] = ErasedSector]
    /\ pc' = "sw_erase_dl"
    /\ FlashOpInSection
    /\ UNCHANGED <<info, download, branch, ram, wr, ret, counters, hist, shaVars, obs>>

\* mutant: the DOWNLOAD sector is not erased before it is programmed
Mutant_SwapEraseDl_no_erase ==
    /\ pc = "sw_erase_dl"
    /\ pc' = "sw_prog_app"
    /\ FlashOpInSection
    /\ UNCHANGED <<info, app, download, branch, ram, wr, ret, counters, hist, shaVars, obs>>

SwapEraseDl ==
    /\ pc = "sw_erase_dl"
    /\ download' = [download EXCEPT ![i + 1] = ErasedSector]
    /\ pc' = "sw_prog_app"
    /\ FlashOpInSection
    /\ UNCHANGED <<info, app, branch, ram, wr, ret, counters, hist, shaVars, obs>>

\* mutant: APP gets its own sector back, nothing is exchanged
Mutant_SwapProgApp_own_buffer ==
    /\ pc = "sw_prog_app"
    /\ app' = [app EXCEPT ![i + 1] = ProgramSector(@, swap_buff_from_application_slot)]
    /\ pc' = "sw_prog_dl"
    /\ FlashOpInSection
    /\ UNCHANGED <<info, download, branch, ram, wr, ret, counters, hist, shaVars, obs>>

SwapProgApp ==
    /\ pc = "sw_prog_app"
    /\ app' = [app EXCEPT ![i + 1] = ProgramSector(@, swap_buff_from_downlaod_slot)]
    /\ pc' = "sw_prog_dl"
    /\ FlashOpInSection
    /\ UNCHANGED <<info, download, branch, ram, wr, ret, counters, hist, shaVars, obs>>

\* mutant: DOWNLOAD gets its own sector back
Mutant_SwapProgDl_own_buffer ==
    /\ pc = "sw_prog_dl"
    /\ download' = [download EXCEPT
                      ![i + 1] = ProgramSector(@, swap_buff_from_downlaod_slot)]
    /\ i' = i + 1
    /\ swap_buff_from_downlaod_slot' = <<>>
    /\ swap_buff_from_application_slot' = <<>>
    /\ pc' = IF i + 1 < SWAP_ITERATIONS THEN "sw_copy" ELSE AfterSwap(branch)
    /\ swapped' = (i + 1 >= SWAP_ITERATIONS)
    /\ IF i + 1 < SWAP_ITERATIONS THEN FlashOpInSection ELSE FlashOpClosesSection
    /\ UNCHANGED <<info, app, branch, data_arr, wr, ret, counters,
                   ses, prev, attempt, dlAtValid, cutAt, jumpsSince, shaVars, obs>>

\* the last flash operation of iteration i, the i++ and the loop test
SwapProgDl ==
    /\ pc = "sw_prog_dl"
    /\ download' = [download EXCEPT
                      ![i + 1] = ProgramSector(@, swap_buff_from_application_slot)]
    /\ i' = i + 1
    /\ swap_buff_from_downlaod_slot' = <<>>
    /\ swap_buff_from_application_slot' = <<>>
    /\ pc' = IF i + 1 < SWAP_ITERATIONS THEN "sw_copy" ELSE AfterSwap(branch)
    /\ swapped' = (i + 1 >= SWAP_ITERATIONS)
    /\ IF i + 1 < SWAP_ITERATIONS THEN FlashOpInSection ELSE FlashOpClosesSection
    /\ UNCHANGED <<info, app, branch, data_arr, wr, ret, counters,
                   ses, prev, attempt, dlAtValid, cutAt, jumpsSince, shaVars, obs>>

\* disable_interrupts, reset_peripherals, jump_to_vtor: the application starts
Jump ==
    /\ pc = "jump"
    /\ pc' = "app"
    /\ ses' = NoSession
    /\ dlAtValid' = <<>>
    /\ jumpsSince' = IF jumpsSince < 3 THEN jumpsSince + 1 ELSE jumpsSince
    /\ lastBoot' = [branch |-> branch, app0 |-> boot0.app, dl0 |-> boot0.download,
                    app |-> app]
    /\ boot0' = NoBoot0
    /\ UNCHANGED <<flash, branch, ram, wr, ret, counters, prev, attempt, swapped,
                   cutAt, before, shaVars, irq>>

(* ------------------------------------------------------------------ *)
(* Resets                                                               *)
(* ------------------------------------------------------------------ *)
\* what is remembered of the application's session when it ends
Latch(how) ==
    [branch |-> branch, commit |-> ses.commit, init |-> ses.init,
     touched |-> ses.touched, stray |-> ses.stray, wrote |-> ses.wrote,
     last |-> ses.last, how |-> how,
     broken |-> pc # "app", sr |-> _pfb_should_rollback]

\* watchdog_enable(1, 1) and the spin: the device resets, RAM is lost
pfb_perform_update ==
    /\ pc = "app"
    /\ events < MaxEvents
    /\ events' = events + 1
    /\ pc' = "main"
    /\ prev' = Latch("update")
    /\ attempt' = 1
    /\ ses' = NoSession
    /\ branch' = "none"
    /\ swapped' = FALSE
    /\ wr' = NoWrite
    /\ ret' = 0
    /\ ResetInterrupts
    /\ UNCHANGED <<flash, ram, dlAtValid, cutAt, jumpsSince, shaVars, obs>>

\* power is lost between two flash operations: RAM is lost, flash stays
PowerLoss ==
    /\ pc # "main"
    /\ events < MaxEvents
    /\ events' = events + 1
    /\ cutAt' = [n |-> cutAt.n + 1, pc |-> pc, branch |-> branch,
                 erased |-> data_arr # <<>>]
    /\ jumpsSince' = 0
    /\ pc' = "main"
    /\ i' = 0
    /\ swap_buff_from_downlaod_slot' = <<>>
    /\ swap_buff_from_application_slot' = <<>>
    /\ data_arr' = <<>>
    /\ wr' = NoWrite
    /\ ret' = 0
    /\ branch' = "none"
    /\ swapped' = FALSE
    /\ ses' = NoSession
    /\ IF pc \in AppPcs
       THEN prev' = Latch("power") /\ attempt' = 1
       ELSE prev' = prev /\ attempt' = 2
    /\ before' = NoBefore
    /\ ResetInterrupts
    /\ UNCHANGED <<flash, dlAtValid, shaVars, boot0, lastBoot>>

(* ------------------------------------------------------------------ *)
(* Application API of src/pico_fota_bootloader.c                        *)
(* ------------------------------------------------------------------ *)
\* a call of one of the three single-marker functions: control enters the codec
CallCommit ==
    /\ pc = "app"
    /\ events < MaxEvents
    /\ events' = events + 1
    /\ pc' = "api_commit"
    /\ ses' = [ses EXCEPT !.commit = TRUE,
                          !.last = IF @ \in {"commit", "commit again"}
                                   THEN "commit again" ELSE "commit"]
    /\ wr' = NoWrite
    /\ ret' = 0
    /\ UNCHANGED <<flash, branch, ram, prev, attempt, swapped,
                   dlAtValid, cutAt, jumpsSince, shaVars, obs, irq>>

CallMarkValid ==
    /\ pc = "app"
    /\ events < MaxEvents
    /\ events' = events + 1
    /\ pc' = "api_valid"
    /\ ses' = [ses EXCEPT !.last = "valid"]
    /\ wr' = NoWrite
    /\ ret' = 0
    /\ UNCHANGED <<flash, branch, ram, prev, attempt, swapped,
                   dlAtValid, cutAt, jumpsSince, shaVars, obs, irq>>

CallMarkInvalid ==
    /\ pc = "app"
    /\ events < MaxEvents
    /\ events' = events + 1
    /\ pc' = "api_invalid"
    /\ ses' = [ses EXCEPT !.last = "invalid"]
    /\ wr' = NoWrite
    /\ ret' = 0
    /\ UNCHANGED <<flash, branch, ram, prev, attempt, swapped,
                   dlAtValid, cutAt, jumpsSince, shaVars, obs, irq>>

\* mutant: the slot is erased without the commit before it
Mutant_initialize_without_commit ==
    /\ pc = "app"
    /\ events < MaxEvents
    /\ events' = events + 1
    /\ pc' = "init_erase"
    /\ ses' = [ses EXCEPT !.init = TRUE, !.touched = TRUE, !.last = "other"]
    /\ wr' = NoWrite
    /\ ret' = 0
    /\ UNCHANGED <<flash, branch, ram, prev, attempt, swapped,
                   dlAtValid, cutAt, jumpsSince, shaVars, obs, irq>>

\* pfb_initialize_download_slot: first the pfb_firmware_commit() it calls
pfb_initialize_download_slot ==
    /\ pc = "app"
    /\ events < MaxEvents
    /\ events' = events + 1
    /\ pc' = "init_commit"
    /\ ses' = [ses EXCEPT !.init = TRUE, !.touched = TRUE, !.last = "other"]
    /\ wr' = NoWrite
    /\ ret' = 0
    /\ UNCHANGED <<flash, branch, ram, prev, attempt, swapped,
                   dlAtValid, cutAt, jumpsSince, shaVars, obs, irq>>

\* then the flash_range_erase of the whole DOWNLOAD slot, and return 0
InitErase ==
    /\ pc = "init_erase"
    /\ download' = ErasedSlot
    /\ ret' = 0
    /\ pc' = "app"
    /\ before' = NoBefore
    /\ FlashOpInOwnSection
    /\ UNCHANGED <<info, app, branch, ram, wr, counters, hist, shaVars, boot0, lastBoot>>

\* the arguments the model calls pfb_write_to_flash_aligned_256_bytes with
WriteOffsets == {U32(0), U32(128), U32(PFB_ALIGN_SIZE), <<Half - 1, Half - PFB_ALIGN_SIZE>>}
WriteLens == {U32(128), U32(PFB_ALIGN_SIZE), U32(SWAP_LEN)}

\* the test at the head of the function, in size_t arithmetic
WriteRejected(offset_bytes, len_bytes) ==
    \/ Mod32(len_bytes, PFB_ALIGN_SIZE) # 0
    \/ Mod32(offset_bytes, PFB_ALIGN_SIZE) # 0
    \/ Gt32(Add32(offset_bytes, len_bytes), U32(SWAP_LEN))

\* the call: rejected with 1, or the loop is entered; src holds src_page in every page
pfb_write_to_flash_aligned_256_bytes ==
    /\ pc = "app"
    /\ events < MaxEvents
    /\ events' = events + 1
    /\ \E offset_bytes \in WriteOffsets, len_bytes \in WriteLens, src_page \in PageData :
          /\ wr' = [called |-> TRUE, offset |-> offset_bytes, len |-> len_bytes,
                    src |-> src_page, dirty |-> FALSE, outside |-> {},
                    info0 |-> info, app0 |-> app]
          /\ IF WriteRejected(offset_bytes, len_bytes)
             THEN ret' = 1 /\ pc' = "app"
             ELSE ret' = ret /\ pc' = "write"
    /\ i' = 0
    /\ ses' = [ses EXCEPT !.touched = TRUE, !.wrote = TRUE,
                          !.wroteFirst = @ \/ ~ses.init, !.last = "other"]
    /\ UNCHANGED <<flash, branch, swap_buff_from_downlaod_slot,
                   swap_buff_from_application_slot, data_arr, prev,
                   attempt, swapped, dlAtValid, cutAt, jumpsSince, shaVars, obs, irq>>

\* dest_address - XIP offset of __FLASH_DOWNLOAD_SLOT_START, in uint32_t arithmetic
DestRel(offset_bytes, k) == Add32(offset_bytes, U32(k * PFB_ALIGN_SIZE))

\* len_bytes / PFB_ALIGN_SIZE
Div256(a) == a[1] * (Half \div PFB_ALIGN_SIZE) + a[2] \div PFB_ALIGN_SIZE

\* the byte rel lies in [0, SWAP_LEN), that is inside the DOWNLOAD slot
InSlot(rel) == Gt32(U32(SWAP_LEN), rel)

\* a slot after flash_range_program of one page at byte rel of the slot
ProgramPageAt(slot, rel, data) ==
    [slot EXCEPT ![(rel[2] \div FLASH_SECTOR_SIZE) + 1]
                  [((rel[2] % FLASH_SECTOR_SIZE) \div PFB_ALIGN_SIZE) + 1] =
                      Program(@, data)]

\* Where a page programmed outside DOWNLOAD lands is fixed by the linker script,
\* which these sources do not hold: it is the page of APP at that distance below
\* DOWNLOAD (APP ending where DOWNLOAD starts), the page of INFO that holds the
\* markers, or a page of neither.
StrayTargets == {"app", "info", "elsewhere"}

\* one iteration of the loop: flash_range_program of page i
WritePage ==
    /\ pc = "write"
    /\ i < Div256(wr.len)
    /\ LET rel == DestRel(wr.offset, i) IN
       IF InSlot(rel)
       THEN /\ download' = ProgramPageAt(download, rel, wr.src)
            /\ wr' = [wr EXCEPT !.dirty = @ \/ download' # download]
            /\ UNCHANGED <<info, app, ses>>
       ELSE /\ \E t \in StrayTargets :
                  CASE t = "app" ->
                         /\ app' = ProgramPageAt(app, Add32(rel, U32(SWAP_LEN)), wr.src)
                         /\ info' = info
                    [] t = "info" ->
                         /\ info' = ProgramInfo(info, [c \in InfoCells |-> wr.src])
                         /\ app' = app
                    [] t = "elsewhere" ->
                         /\ UNCHANGED <<info, app>>
            /\ wr' = [wr EXCEPT !.dirty = TRUE, !.outside = @ \cup {rel}]
            /\ ses' = [ses EXCEPT !.stray = TRUE]
            /\ download' = download
    /\ i' = i + 1
    /\ FlashOpInOwnSection
    /\ UNCHANGED <<pc, branch, swap_buff_from_downlaod_slot,
                   swap_buff_from_application_slot, data_arr, ret, counters,
                   prev, attempt, swapped, dlAtValid, cutAt, jumpsSince, shaVars, obs>>

\* the loop ends: return 0
WriteReturn ==
    /\ pc = "write"
    /\ i >= Div256(wr.len)
    /\ ret' = 0
    /\ pc' = "app"
    /\ i' = 0
    /\ UNCHANGED <<flash, branch, swap_buff_from_downlaod_slot,
                   swap_buff_from_application_slot, data_arr, wr, counters, hist,
                   shaVars, obs, irq>>

(* ------------------------------------------------------------------ *)
(* pfb_firmware_sha256_check (PFB_WITH_SHA256_HASHING defined)          *)
(* ------------------------------------------------------------------ *)
\* DOWNLOAD is read in units of PFB_SHA256_DIGEST_SIZE bytes; a unit is a tuple
NumChunks == SWAP_LEN \div PFB_SHA256_DIGEST_SIZE
ChunksPerPage == PFB_ALIGN_SIZE \div PFB_SHA256_DIGEST_SIZE

RECURSIVE Flatten(_)
Flatten(s) == IF s = <<>> THEN <<>> ELSE <<Len(Head(s))>> \o Head(s) \o Flatten(Tail(s))

\* mbedtls_sha256 starts/update/finish over a sequence of units: an injective
\* function of the sequence, whose values differ from every data unit
Sha256(s) == <<2>> \o Flatten(s)

get_image_sha256_address(image_size) ==
    (image_size - PFB_SHA256_DIGEST_SIZE) \div PFB_SHA256_DIGEST_SIZE + 1

Sha256CheckResult(dl, size) ==
    IF size % PFB_ALIGN_SIZE # 0 \/ size < PFB_ALIGN_SIZE
    THEN 1
    ELSE LET image_size_without_sha256 == size - 256
             calculated_sha256 ==
                 Sha256(SubSeq(dl, 1, image_size_without_sha256 \div PFB_SHA256_DIGEST_SIZE))
         IN  IF calculated_sha256 # dl[get_image_sha256_address(size)] THEN 1 ELSE 0

ShaSizes == {0, PFB_SHA256_DIGEST_SIZE, 128, PFB_ALIGN_SIZE,
             PFB_ALIGN_SIZE + PFB_SHA256_DIGEST_SIZE, 2 * PFB_ALIGN_SIZE}

pfb_firmware_sha256_check ==
    /\ pc = "app"
    /\ \E size \in ShaSizes :
          sha' = [called |-> TRUE, firmware_size |-> size,
                  ret |-> Sha256CheckResult(dlChunks, size)]
    /\ ses' = [ses EXCEPT !.last = "other"]
    /\ UNCHANGED <<flash, pc, branch, ram, wr, ret, counters, prev, attempt, swapped,
                   dlAtValid, cutAt, jumpsSince, dlChunks, obs, irq>>

(* ------------------------------------------------------------------ *)
(* Initial states                                                       *)
(* ------------------------------------------------------------------ *)
InitMachine ==
    /\ branch = "none"
    /\ i = 0
    /\ swap_buff_from_downlaod_slot = <<>>
    /\ swap_buff_from_application_slot = <<>>
    /\ data_arr = <<>>
    /\ wr = NoWrite
    /\ ret = 0
    /\ events = 0
    /\ ses = NoSession
    /\ swapped = FALSE
    /\ cutAt = NoCut
    /\ jumpsSince = 0
    /\ boot0 = NoBoot0
    /\ before = NoBefore
    /\ interrupts = TRUE
    /\ saved_interrupts = NoSaved
    /\ mask0 = TRUE
    /\ unmasked = FALSE
    /\ isr = "none"

NoSha == [called |-> FALSE, firmware_size |-> 0, ret |-> 0]

InitNoSha ==
    /\ dlChunks = <<>>
    /\ sha = NoSha

\* a freshly flashed device at its first reset: INFO and DOWNLOAD erased
Init ==
    /\ info = ErasedInfo
    /\ app = FactoryImage
    /\ download = ErasedSlot
    /\ prev = NoPrev
    /\ attempt = 0
    /\ dlAtValid = <<>>
    /\ lastBoot = NoLastBoot
    /\ pc = "main"
    /\ InitMachine
    /\ InitNoSha

\* INFO after the first boot, pfb_initialize_download_slot and mark_valid
StagedInfo ==
    [c \in InfoCells |->
        IF c = DV THEN PFB_SHOULD_SWAP_MAGIC
        ELSE IF c \in {IAR, REST} THEN ERASED
        ELSE U32(0)]

\* the reset after the application staged StagedImage, marked it valid and called
\* pfb_perform_update
InitStaged ==
    /\ info = StagedInfo
    /\ app = FactoryImage
    /\ download = StagedImage
    /\ prev = [branch |-> "plain", commit |-> FALSE, init |-> TRUE, touched |-> FALSE,
               stray |-> FALSE, wrote |-> TRUE, last |-> "valid", how |-> "update",
               broken |-> FALSE, sr |-> FALSE]
    /\ attempt = 1
    /\ dlAtValid = StagedImage
    /\ lastBoot = [branch |-> "plain", app0 |-> FactoryImage, dl0 |-> ErasedSlot,
                   app |-> FactoryImage]
    /\ pc = "main"
    /\ InitMachine
    /\ InitNoSha

\* The values the INFO sector may hold at a reset: each marker's magic, zero, the
\* erased word, the magic with one bit changed, and another marker's magic.
OneBitOff(magic) == <<magic[1], IF magic[2] % 2 = 0 THEN magic[2] + 1 ELSE magic[2] - 1>>
MarkerValues(magic, other) == {magic, U32(0), ERASED, OneBitOff(magic), other}
InfoContents ==
    { [c \in InfoCells |->
          CASE c = DV -> dv [] c = SR -> sr [] c = FS -> fs [] c = IAR -> iar
            [] OTHER -> rest] :
      dv \in MarkerValues(PFB_SHOULD_SWAP_MAGIC, PFB_SHOULD_ROLLBACK_MAGIC),
      sr \in MarkerValues(PFB_SHOULD_ROLLBACK_MAGIC, PFB_SHOULD_SWAP_MAGIC),
      fs \in {PFB_HAS_NEW_FIRMWARE_MAGIC, ERASED},
      iar \in {PFB_IS_AFTER_ROLLBACK_MAGIC, ERASED},
      rest \in {U32(5)} }

InitMarkers ==
    /\ info \in InfoContents
    /\ app = FactoryImage
    /\ download = StagedImage
    /\ prev = NoPrev
    /\ attempt = 0
    /\ dlAtValid = <<>>
    /\ lastBoot = NoLastBoot
    /\ pc = "main"
    /\ InitMachine
    /\ InitNoSha

\* DOWNLOAD contents for the digest check: an image of n pages of data units, a few
\* of them set, whose last unit is the digest of all units before it, or the
\* digest of all pages before the last one, or a data unit; erased behind it
ShaImagePages == {1, 2}
ShaFlips(n) == {1, (n - 1) * ChunksPerPage, (n - 1) * ChunksPerPage + 1,
                n * ChunksPerPage - 1} \cap 1..(n * ChunksPerPage - 1)
ShaData(n, flips) ==
    [k \in 1..NumChunks |->
        IF k > n * ChunksPerPage THEN <<3>>
        ELSE IF k \in flips THEN <<1>> ELSE <<0>>]
ShaTrailers(d, n) ==
    { Sha256(SubSeq(d, 1, n * ChunksPerPage - 1)),
      Sha256(SubSeq(d, 1, (n - 1) * ChunksPerPage)),
      <<0>> }
ShaImages ==
    UNION { UNION { { [ShaData(n, f) EXCEPT ![n * ChunksPerPage] = t] :
                        t \in ShaTrailers(ShaData(n, f), n) } :
                    f \in SUBSET ShaFlips(n) } :
            n \in ShaImagePages }

InitSha ==
    /\ dlChunks \in ShaImages
    /\ sha = NoSha
    /\ info = ErasedInfo
    /\ app = FactoryImage
    /\ download = ErasedSlot
    /\ prev = NoPrev
    /\ attempt = 0
    /\ dlAtValid = <<>>
    /\ lastBoot = NoLastBoot
    /\ pc = "app"
    /\ InitMachine

(* ------------------------------------------------------------------ *)
(* Specifications                                                       *)
(* ------------------------------------------------------------------ *)
Dispatcher ==
    \/ MainBranch
    \/ SwapCopy
    \/ SwapEraseApp
    \/ SwapEraseDl
    \/ SwapProgApp
    \/ SwapProgDl
    \/ Jump

Codec ==
    \/ CodecErase
    \/ CodecProgram

Next ==
    \/ Dispatcher
    \/ Codec
    \/ pfb_perform_update
    \/ PowerLoss
    \/ CallCommit
    \/ CallMarkValid
    \/ CallMarkInvalid
    \/ pfb_initialize_download_slot
    \/ InitErase
    \/ pfb_write_to_flash_aligned_256_bytes
    \/ WritePage
    \/ WriteReturn

\* the whole device from its first reset
Spec == Init /\ [][Next]_vars

\* power is lost while the dispatcher runs
PowerLossInBoot == pc \in BootPcs /\ PowerLoss

\* the dispatcher under power loss, from a staged update; the application only
\* commits or resets
NextPowerLoss ==
    \/ Dispatcher
    \/ Codec
    \/ pfb_perform_update
    \/ PowerLossInBoot
    \/ CallCommit

SpecPowerLoss == InitStaged /\ [][NextPowerLoss]_vars

\* the dispatcher and the whole API, without power loss, from the reset that
\* finds a staged, validated image
NextStaged ==
    \/ Dispatcher
    \/ Codec
    \/ pfb_perform_update
    \/ CallCommit
    \/ CallMarkValid
    \/ CallMarkInvalid
    \/ pfb_initialize_download_slot
    \/ InitErase
    \/ pfb_write_to_flash_aligned_256_bytes
    \/ WritePage
    \/ WriteReturn

SpecStaged == InitStaged /\ [][NextStaged]_vars

\* an interrupt is taken: possible at any point where interrupts are enabled
Isr ==
    /\ interrupts
    /\ isr # "inside"
    /\ isr' = IF InOperation THEN "inside" ELSE "outside"
    /\ isr' # isr
    /\ UNCHANGED <<flash, pc, branch, ram, wr, ret, counters, hist, obs, shaVars,
                   interrupts, saved_interrupts, mask0, unmasked>>

\* the application enters or leaves a critical section of its own, so that the
\* functions are called with interrupts enabled or disabled
AppCriticalSection ==
    /\ pc = "app"
    /\ interrupts' = ~interrupts
    /\ mask0' = interrupts'
    /\ UNCHANGED <<flash, pc, branch, ram, wr, ret, counters, hist, obs, shaVars,
                   saved_interrupts, unmasked, isr>>

\* the device with interrupt handlers and a caller that masks interrupts
NextIrq ==
    \/ Dispatcher
    \/ Codec
    \/ pfb_perform_update
    \/ CallCommit
    \/ CallMarkValid
    \/ pfb_initialize_download_slot
    \/ InitErase
    \/ pfb_write_to_flash_aligned_256_bytes
    \/ WritePage
    \/ WriteReturn
    \/ Isr
    \/ AppCriticalSection

SpecIrq == InitStaged /\ [][NextIrq]_vars

\* a reset that finds any values in the INFO sector; the application calls the
\* marker functions and resets
NextMarkers ==
    \/ Dispatcher
    \/ Codec
    \/ pfb_perform_update
    \/ CallCommit
    \/ CallMarkValid
    \/ CallMarkInvalid

SpecMarkers == InitMarkers /\ [][NextMarkers]_vars

\* the digest check over the DOWNLOAD contents of ShaImages
SpecSha == InitSha /\ [][pfb_firmware_sha256_check]_vars

(* ------------------------------------------------------------------ *)
(* Properties                                                           *)
(* ------------------------------------------------------------------ *)
NOSWAP == PFB_SHOULD_NOT_SWAP_MAGIC
NoPowerLoss == cutAt.n = 0

\* the state SpecPowerLoss starts in is one Spec reaches
StagedStateReached == pc = "main" /\ flash = <<StagedInfo, FactoryImage, StagedImage>>

\* C1 (as claimed; SpecPowerLoss): with power lost any number of times between
\* flash operations of the dispatcher, at every jump to the application APP holds
\* the whole previous image or the whole staged image.
C1_AppWholeAtEveryJump ==
    pc = "jump" => app \in {FactoryImage, StagedImage}

\* C2 (as claimed; SpecPowerLoss): a rollback boot cut inside swap_images, then
\* two boots that run to their end, leave the original image in APP.
C2_CutRollbackRestoredByTwoBoots ==
    (/\ pc = "app"
     /\ cutAt.n = 1
     /\ cutAt.branch = "rollback"
     /\ cutAt.pc \in SwapPcs
     /\ jumpsSince = 2)
    => app = FactoryImage

\* C3 (as claimed; SpecPowerLoss): power lost in the activation branch after
\* swap_images returned makes the next boot that runs to its end restore the
\* previous image, with SHOULD_ROLLBACK=NO and pfb_is_after_rollback() true.
C3_CutAfterActivationSwapRollsBack ==
    (/\ pc = "jump"
     /\ cutAt.n = 1
     /\ cutAt.branch = "activate"
     /\ cutAt.pc \in {"ac_fs", "ac_iar", "ac_sr", "inval"}
     /\ jumpsSince = 0)
    => /\ app = FactoryImage
       /\ info[SR] = PFB_SHOULD_NOT_ROLLBACK_MAGIC
       /\ pfb_is_after_rollback

\* the boot about to jump took the rollback branch and left its markers
RolledBack ==
    /\ branch = "rollback"
    /\ swapped
    /\ info[SR] = PFB_SHOULD_NOT_ROLLBACK_MAGIC
    /\ info[FS] = PFB_NO_NEW_FIRMWARE_MAGIC
    /\ info[IAR] = PFB_IS_AFTER_ROLLBACK_MAGIC
    /\ pfb_is_after_rollback

\* the first boot after a session that an activation boot started, about to jump;
\* every API call of the session returned
AfterActivationSession ==
    /\ pc = "jump"
    /\ attempt = 1
    /\ prev.branch = "activate"
    /\ ~prev.broken

\* C4 (as claimed): after an activation boot and a session without a call of
\* pfb_firmware_commit, the next boot takes the rollback branch and
\* pfb_is_after_rollback() is true.
C4_NoCommitCallRollsBack ==
    (AfterActivationSession /\ ~prev.commit /\ ~prev.stray /\ NoPowerLoss)
    => RolledBack

\* C4 (amended): after an activation boot and a session with no call of
\* pfb_firmware_commit nor of pfb_initialize_download_slot, which programmed no
\* page outside DOWNLOAD, the next boot takes the rollback branch, swaps, leaves
\* SHOULD_ROLLBACK=NO, FIRMWARE_SWAPPED=OLD, IS_AFTER_ROLLBACK=YES, and
\* pfb_is_after_rollback() is true.
C4_NoCommitNoInitRollsBack ==
    (AfterActivationSession /\ ~prev.commit /\ ~prev.init /\ ~prev.stray)
    => RolledBack

C4_Witness ==
    /\ AfterActivationSession /\ ~prev.commit /\ ~prev.init /\ ~prev.stray
    /\ prev.last = "invalid"
    /\ RolledBack

\* the first boot after a session that ended with mark_valid and
\* pfb_perform_update, about to jump
AfterValidAndUpdate ==
    /\ pc = "jump"
    /\ attempt = 1
    /\ prev.last = "valid"
    /\ prev.how = "update"
    /\ ~prev.broken

C6_AfterRollbackOnlyAfterRollbackBoot ==
    (pc = "app" /\ NoPowerLoss) => (pfb_is_after_rollback => branch = "rollback")

\* the first boot after a session whose last call was mark_invalid, once main()
\* has chosen its branch
AfterInvalid ==
    /\ attempt = 1
    /\ prev.last = "invalid"
    /\ ~prev.broken
    /\ branch # "none"

FirstActivation ==
    /\ branch = "activate"
    /\ attempt = 1
    /\ ~prev.broken

\* what the activation branch exchanges into APP is what mark_valid saw
ExchangesValidated ==
    /\ (pc = "sw_copy" /\ i = 0) => download = dlAtValid
    /\ pc = "jump" => app = dlAtValid

\* C8 (as claimed): whatever calls follow mark_valid, the activation branch
\* exchanges into APP the DOWNLOAD content of the moment DOWNLOAD_VALID was set.
C8_ActivationTakesValidatedDownload ==
    (FirstActivation /\ NoPowerLoss) => ExchangesValidated

\* C8 (amended): if the application calls neither pfb_initialize_download_slot
\* nor pfb_write_to_flash_aligned_256_bytes between the last mark_valid and the
\* reset, the activation branch exchanges into APP the DOWNLOAD content of the
\* moment DOWNLOAD_VALID was set.
C8_UntouchedDownloadIsActivated ==
    (FirstActivation /\ ~prev.touched) => ExchangesValidated

C8_Witness ==
    /\ FirstActivation /\ ~prev.touched
    /\ pc = "jump"
    /\ app = dlAtValid
    /\ dlAtValid # ErasedSlot

\* offset + len > SWAP_LEN over the integers, and the two alignment tests
BeyondOrMisaligned(offset_bytes, len_bytes) ==
    \/ Mod32(len_bytes, PFB_ALIGN_SIZE) # 0
    \/ Mod32(offset_bytes, PFB_ALIGN_SIZE) # 0
    \/ offset_bytes[1] + len_bytes[1] > 0
    \/ offset_bytes[2] + len_bytes[2] > SWAP_LEN

\* C9 (as claimed): a write call returns non-zero and changes no flash byte iff
\* offset % 256 # 0 or len % 256 # 0 or offset + len > SWAP_LEN; every other
\* call returns zero.
C9_RejectedIffBeyondOrMisaligned ==
    (pc = "app" /\ wr.called)
    => /\ (ret # 0 /\ ~wr.dirty) <=> BeyondOrMisaligned(wr.offset, wr.len)
       /\ ~BeyondOrMisaligned(wr.offset, wr.len) => ret = 0

\* C10 (as claimed; SpecSha): for a size that is a multiple of 256 and at least
\* 256 the check returns zero iff the last 32 bytes of the first size bytes of
\* DOWNLOAD are the digest of the size - 32 bytes before them; for every other
\* size it returns non-zero.
C10_CheckIffTrailingDigestOfRest ==
    sha.called
    => LET size == sha.firmware_size
           last == size \div PFB_SHA256_DIGEST_SIZE
       IN  IF size % PFB_ALIGN_SIZE = 0 /\ size >= PFB_ALIGN_SIZE
           THEN sha.ret = 0 <=> dlChunks[last] = Sha256(SubSeq(dlChunks, 1, last - 1))
           ELSE sha.ret # 0

\* C11: a boot that finds DOWNLOAD_VALID=SWAP and SHOULD_ROLLBACK other than YES and
\* runs to the jump has exchanged APP and DOWNLOAD sector for sector and left
\* FIRMWARE_SWAPPED=NEW, SHOULD_ROLLBACK=YES, IS_AFTER_ROLLBACK=NO,
\* DOWNLOAD_VALID=NOSWAP.
C11_ActivationExchangesAndMarks ==
    (/\ pc = "jump"
     /\ boot0.info[DV] = PFB_SHOULD_SWAP_MAGIC
     /\ boot0.info[SR] # PFB_SHOULD_ROLLBACK_MAGIC)
    => /\ \A s \in 1..SectorsPerImage :
             /\ app[s] = boot0.download[s]
             /\ download[s] = boot0.app[s]
       /\ info[FS] = PFB_HAS_NEW_FIRMWARE_MAGIC
       /\ info[SR] = PFB_SHOULD_ROLLBACK_MAGIC
       /\ info[IAR] = PFB_IS_NOT_AFTER_ROLLBACK_MAGIC
       /\ info[DV] = NOSWAP

C11_Witness ==
    /\ pc = "jump"
    /\ boot0.info[DV] = PFB_SHOULD_SWAP_MAGIC
    /\ boot0.info[SR] # PFB_SHOULD_ROLLBACK_MAGIC
    /\ boot0.download \notin {ErasedSlot, boot0.app}
    /\ app = boot0.download
    /\ download = FactoryImage

\* the first boot after a session that an activation boot started and in which the
\* application neither committed nor called pfb_initialize_download_slot nor
\* pfb_write_to_flash_aligned_256_bytes, about to jump out of the rollback branch
RolledBackUntouched ==
    /\ AfterActivationSession
    /\ branch = "rollback"
    /\ ~prev.commit
    /\ ~prev.init
    /\ ~prev.wrote

\* C12: an activation boot, a session without commit and without a write to
\* DOWNLOAD, and a rollback boot leave APP and DOWNLOAD as they were before the
\* activation boot, with IS_AFTER_ROLLBACK=YES and SHOULD_ROLLBACK=NO.
C12_ActivationThenRollbackIsRoundTrip ==
    RolledBackUntouched
    => /\ app = lastBoot.app0
       /\ download = lastBoot.dl0
       /\ info[IAR] = PFB_IS_AFTER_ROLLBACK_MAGIC
       /\ info[SR] = PFB_SHOULD_NOT_ROLLBACK_MAGIC

C12_Witness ==
    /\ RolledBackUntouched
    /\ lastBoot.dl0 \notin {ErasedSlot, lastBoot.app0}
    /\ app = lastBoot.app0
    /\ download = lastBoot.dl0

\* the first boot after a session that an activation boot started and in which
\* pfb_firmware_commit ran, called by the application or by
\* pfb_initialize_download_slot, about to jump
AfterCommittedSession ==
    /\ AfterActivationSession
    /\ prev.commit \/ prev.init

\* C13 (as claimed; SpecStaged): after an activation boot and a session that
\* committed, the next boot is a plain boot: no swap, APP still the new image,
\* IS_AFTER_ROLLBACK=NO, FIRMWARE_SWAPPED=OLD.
C13_CommitThenPlainBoot ==
    (AfterCommittedSession /\ NoPowerLoss /\ ~prev.stray)
    => /\ branch = "plain"
       /\ ~swapped
       /\ app = lastBoot.app
       /\ info[IAR] = PFB_IS_NOT_AFTER_ROLLBACK_MAGIC
       /\ info[FS] = PFB_NO_NEW_FIRMWARE_MAGIC

\* C13 (amended; SpecStaged): after an activation boot and a session that
\* committed, a boot that does not find DOWNLOAD_VALID=SWAP is a plain boot: no
\* swap, APP and DOWNLOAD as they were at the reset (APP the new image when no
\* write programmed outside DOWNLOAD), IS_AFTER_ROLLBACK=NO, FIRMWARE_SWAPPED=OLD.
C13_CommitAndNotValidThenPlainBoot ==
    (AfterCommittedSession /\ boot0.info[DV] # PFB_SHOULD_SWAP_MAGIC)
    => /\ branch = "plain"
       /\ ~swapped
       /\ app = boot0.app
       /\ download = boot0.download
       /\ ~prev.stray => app = lastBoot.app
       /\ info[IAR] = PFB_IS_NOT_AFTER_ROLLBACK_MAGIC
       /\ info[FS] = PFB_NO_NEW_FIRMWARE_MAGIC

C13_Witness ==
    /\ AfterCommittedSession
    /\ boot0.info[DV] # PFB_SHOULD_SWAP_MAGIC
    /\ prev.commit
    /\ branch = "plain"
    /\ app = StagedImage
    /\ lastBoot.app = StagedImage

\* C14: from every value of the four markers, when pfb_firmware_commit has
\* returned SHOULD_ROLLBACK reads NO, and a commit that directly follows a commit
\* leaves INFO, APP and DOWNLOAD exactly as the commit before it left them.
CommitReturned == pc = "app" /\ ses.last \in {"commit", "commit again"}
CommitAgainReturns == pc = "api_commit" /\ ses.last = "commit again" /\ pc' = "app"
C14_CommitIsTotalAndIdempotent ==
    /\ [](CommitReturned => info[SR] = PFB_SHOULD_NOT_ROLLBACK_MAGIC)
    /\ [][CommitAgainReturns =>
             /\ info' = before.info
             /\ app' = before.app
             /\ download' = before.download]_vars

\* a second commit in a row has returned in a boot that found neither YES nor NO
\* in SHOULD_ROLLBACK
C14_Witness ==
    /\ pc = "app"
    /\ ses.last = "commit again"
    /\ lastBoot.branch = "activate"
    /\ info[SR] = PFB_SHOULD_NOT_ROLLBACK_MAGIC
    /\ info[DV] = PFB_SHOULD_NOT_SWAP_MAGIC

\* C15: the boot that follows a power loss between the codec's erase of INFO and
\* its reprogramming finds all four markers unset and takes the plain-boot branch
\* without a swap, whichever marker write was cut; and a boot that finds INFO
\* all ones (the cold boot included) takes the plain-boot branch and enters the
\* application with is_after_firmware_update and is_after_rollback both false.
BranchTaken == pc \in BootPcs /\ branch # "none"
BootAfterCutInCodec == cutAt.erased /\ jumpsSince = 0 /\ BranchTaken
UnsetMarkers(inf) ==
    /\ inf[SR] # PFB_SHOULD_ROLLBACK_MAGIC
    /\ inf[DV] # PFB_SHOULD_SWAP_MAGIC
    /\ inf[FS] # PFB_HAS_NEW_FIRMWARE_MAGIC
    /\ inf[IAR] # PFB_IS_AFTER_ROLLBACK_MAGIC
C15_CutAfterEraseThenPlainBoot ==
    /\ BootAfterCutInCodec =>
          /\ boot0.info = ErasedInfo
          /\ UnsetMarkers(boot0.info)
    /\ (BranchTaken /\ boot0.info = ErasedInfo) =>
          /\ branch = "plain"
          /\ pc \notin SwapPcs
          /\ ~swapped
          /\ app = boot0.app
          /\ download = boot0.download
          /\ pc = "jump" => ~pfb_is_after_firmware_update /\ ~pfb_is_after_rollback

\* the boot after a cut in the activation branch's first marker write is at its jump
C15_Witness ==
    /\ BootAfterCutInCodec
    /\ cutAt.pc = "ac_fs"
    /\ cutAt.branch = "activate"
    /\ pc = "jump"
    /\ branch = "plain"

\* C16: every completed marker write through the codec sets the addressed marker
\* to the given value and leaves every other word of INFO, and all of APP and
\* DOWNLOAD, as they were before the write, whatever INFO held.
MarkerWriteCompletes == pc \in MarkPcs /\ data_arr # <<>> /\ pc' = After(pc)
C16_MarkerWriteTouchesOnlyItsMarker ==
    [][MarkerWriteCompletes =>
         /\ info'[Statement(pc)[1]] = Statement(pc)[2]
         /\ \A c \in InfoCells \ {Statement(pc)[1]} : info'[c] = before.info[c]
         /\ app' = before.app
         /\ download' = before.download]_vars

\* mark_valid has returned after an activation boot: two other markers hold
\* their magics and the rest of the sector a value that is neither zero nor all
\* ones
C16_Witness ==
    /\ pc = "app"
    /\ ses.last = "valid"
    /\ lastBoot.branch = "activate"
    /\ info[DV] = PFB_SHOULD_SWAP_MAGIC
    /\ info[SR] = PFB_SHOULD_ROLLBACK_MAGIC
    /\ info[FS] = PFB_HAS_NEW_FIRMWARE_MAGIC
    /\ info[REST] = U32(5)

\* C17: main() takes the rollback branch iff SHOULD_ROLLBACK is exactly
\* 0x0DEADEAD, the activation branch iff it is any other value and
\* DOWNLOAD_VALID is exactly 0xABCDEF12, and the plain-boot branch otherwise;
\* the branch stays the one chosen until the jump, only the two swapping branches
\* run swap steps, and swap_images runs at most once per boot.
BranchFor(inf) ==
    IF inf[SR] = <<3562, 57005>> THEN "rollback"
    ELSE IF inf[DV] = <<43981, 61202>> THEN "activate"
    ELSE "plain"
C17_BranchByPriority ==
    /\ [](BranchTaken => /\ branch = BranchFor(boot0.info)
                         /\ branch = "plain" => pc \notin SwapPcs /\ ~swapped)
    /\ [][(pc \in (BootPcs \ {"main"})) => (branch' \in {branch, "none"})]_vars
    /\ [][swapped => (pc' \notin SwapPcs)]_vars

\* a boot that found a one-bit neighbour of 0x0DEADEAD in SHOULD_ROLLBACK and
\* 0xABCDEF12 in DOWNLOAD_VALID has swapped and is at its jump
C17_Witness ==
    /\ pc = "jump"
    /\ boot0.info[SR] = OneBitOff(PFB_SHOULD_ROLLBACK_MAGIC)
    /\ boot0.info[DV] = PFB_SHOULD_SWAP_MAGIC
    /\ branch = "activate"
    /\ swapped

\* C18: every boot branch ends with DOWNLOAD_VALID set to NOSWAP, after its own
\* marker updates and right before the jump, so the application is entered with
\* DOWNLOAD_VALID reading NOSWAP; and a boot takes the activation branch only if
\* pfb_mark_download_slot_as_valid has returned since the last completed boot.
C18_DownloadInvalidAtEveryEntry ==
    /\ [](pc = "jump" => info[DV] = PFB_SHOULD_NOT_SWAP_MAGIC)
    /\ [][pc' = "jump" => pc = "inval"]_vars
    /\ [][(pc = "jump" /\ pc' = "app") => info'[DV] = PFB_SHOULD_NOT_SWAP_MAGIC]_vars
    /\ []((BranchTaken /\ branch = "activate") => dlAtValid # <<>>)

\* a rollback boot, which found DOWNLOAD_VALID reading SWAP, is at its jump
C18_Witness ==
    /\ pc = "jump"
    /\ branch = "rollback"
    /\ boot0.info[DV] = PFB_SHOULD_SWAP_MAGIC
    /\ info[DV] = PFB_SHOULD_NOT_SWAP_MAGIC

\* C19: no flash erase or program of the codec, swap_images,
\* pfb_initialize_download_slot or pfb_write_to_flash_aligned_256_bytes runs
\* with interrupts enabled; interrupts are disabled, and no handler runs, from
\* an operation's first flash step to its last; and outside the operations the
\* mask is the one the caller had set.
C19_FlashOpsMaskedAndMaskRestored ==
    /\ ~unmasked
    /\ InOperation => ~interrupts
    /\ isr # "inside"
    /\ ~InOperation => interrupts = mask0

\* the application called initialize and write inside its own critical section,
\* both returned with interrupts still disabled, and a handler ran earlier
C19_Witness ==
    /\ pc = "app"
    /\ ses.init
    /\ ses.wrote
    /\ ~mask0
    /\ ~interrupts
    /\ isr = "outside"
    /\ swapped

\* C20: pfb_initialize_download_slot has cleared SHOULD_ROLLBACK when it erases
\* DOWNLOAD. So while the application runs (the boot before it reached its jump)
\* and has not written before it initialized the slot, and also in the state a
\* power loss inside pfb_initialize_download_slot leaves,
\* SHOULD_ROLLBACK = YES implies that DOWNLOAD holds the image the last
\* activation found in APP; and when the call returns DOWNLOAD is erased and
\* APP is as it was at the call.
AppWithoutEarlyWrite == pc \in AppPcs /\ ~ses.wroteFirst
OldImageInDownload(dl) == lastBoot.branch = "activate" /\ dl = lastBoot.app0
CutInInitialize == pc \in {"init_commit", "init_erase"} /\ pc' = "main"
InitializeReturns == pc = "init_erase" /\ pc' = "app"
C20_InitializeCommitsBeforeErase ==
    /\ []((AppWithoutEarlyWrite /\ info[SR] = PFB_SHOULD_ROLLBACK_MAGIC)
             => OldImageInDownload(download))
    /\ [](pc = "init_erase" => info[SR] = PFB_SHOULD_NOT_ROLLBACK_MAGIC)
    /\ [][(CutInInitialize /\ AppWithoutEarlyWrite
               /\ info'[SR] = PFB_SHOULD_ROLLBACK_MAGIC)
             => OldImageInDownload(download')]_vars
    /\ [][InitializeReturns =>
             /\ download' = ErasedSlot
             /\ before # NoBefore
             /\ app' = before.app
             /\ app' = app
             /\ info'[SR] = PFB_SHOULD_NOT_ROLLBACK_MAGIC]_vars

\* after an activation the application has initialized the slot: the old image
\* is gone from DOWNLOAD and SHOULD_ROLLBACK reads NO
C20_Witness ==
    /\ pc = "app"
    /\ lastBoot.branch = "activate"
    /\ attempt < 2
    /\ ses.init
    /\ ~ses.wrote
    /\ lastBoot.app0 # ErasedSlot
    /\ download = ErasedSlot
    /\ info[SR] = PFB_SHOULD_NOT_ROLLBACK_MAGIC

\* C21 (as claimed): with offset + len evaluated in 32-bit arithmetic as the code
\* does, every call of pfb_write_to_flash_aligned_256_bytes that returns 0 has
\* programmed only pages inside [DOWNLOAD_START, DOWNLOAD_START + SWAP_LEN) and
\* has left APP and the INFO sector as they were at the call.
WriteReturnedZero == pc = "app" /\ wr.called /\ ret = 0
C21_AcceptedWriteStaysInDownload ==
    WriteReturnedZero
    => /\ wr.outside = {}
       /\ app = wr.app0
       /\ info = wr.info0

====
